---- MODULE Spec2Model ----
(***************************************************************************)
(* Model of js-garden's typography bootstrap (src/utils/typography.js) and *)
(* its consumer, the 404 page (src/pages/404.js).                          *)
(*                                                                         *)
(* The module body of typography.js is a straight-line program:            *)
(*   6-12  DeYoung.overrideThemeStyles = () => ({...})                     *)
(*   14    const typography = new Typography(DeYoung)                      *)
(*   17-19 if (process.env.NODE_ENV !== `production`) injectStyles()       *)
(*   21-23 export rhythm, scale, default                                   *)
(* Its position is pc.  The bodies of Typography, injectStyles, rhythm and *)
(* scale live in the npm packages `typography` and                         *)
(* `typography-theme-de-young`; the model keeps only what the call sites   *)
(* rely on: the constructor reads the theme object it is handed, the       *)
(* methods are closures over the engine they came from, and a call yields  *)
(* a value determined by the engine's options, the method and the          *)
(* argument.  No arithmetic of rhythm or scale is modelled.                *)
(***************************************************************************)
EXTENDS Integers, Sequences, FiniteSets, TLC

\* ---------------------------------------------------------------- bounds
\* Evaluations of the typography module in one process (1 = the first
\* import, more = hot-reload re-evaluation).
MaxEvals == 2

\* ------------------------------------------------------------ value sets
\* process.env.NODE_ENV; "undefined" is the unset flag.
EnvFlags == {"production", "development", "test", "undefined"}

\* An optional value: <<>> is undefined, <<x>> is x.
None == <<>>
Some(x) == <<x>>

\* The selector the patch sets, and the selectors a theme's own style
\* table may hold.
ImageLink == "a.gatsby-resp-image-link"
ThemeSelectors == {"a", "h1", ImageLink}
ThemeStyles == {[boxShadow |-> "none"], [boxShadow |-> "0 1px 0 0 currentColor"]}

\* A style table: selector -> style record, on some set of selectors.
EmptyTable == [s \in {} |-> [boxShadow |-> "none"]]
Tables(sels) == UNION {[d -> ThemeStyles] : d \in SUBSET sels}

\* The tables the imported theme may bring as its own overrideStyles.
BaseTables == {t \in Tables(ThemeSelectors) : Cardinality(DOMAIN t) <= 1}
              \cup {[s \in {"a", "h1"} |-> [boxShadow |-> "0 1px 0 0 currentColor"]]}

\* Arguments consumers pass: rhythm multipliers in quarters (1 = 0.25, as in
\* the 404 page) and integer scale steps.
Multipliers == {0, 1, 2, 4}
Steps == {-1, 0, 1}
NotFoundMultiplier == 1

\* ----------------------------------------------------------------- state
VARIABLES
  env,          \* process.env.NODE_ENV, fixed for the process
  DeYoung,      \* the imported theme object (shared across evaluations)
  baseTheme,    \* DeYoung as imported, before any patch (history)
  typography,   \* the module-scope const: None or Some(engine)
  prevTypography, \* the engine of the previous evaluation (history)
  exports,      \* the module's bindings: None or Some([rhythm, scale, default])
  pc,           \* position in the module body
  evals,        \* evaluations of the module started so far
  injectCalls,  \* calls of typography.injectStyles() over the process
  evalInjects,  \* calls of typography.injectStyles() in this evaluation
  injectOutcome,\* how the last injectStyles() call ended: "none", "ok", "throws"
  styleTarget,  \* the engines whose CSS was written to the style target
  lastResult    \* what the last consumer call of rhythm/scale returned

vars == <<env, DeYoung, baseTheme, typography, prevTypography, exports, pc,
          evals, injectCalls, evalInjects, injectOutcome, styleTarget,
          lastResult>>

\* ------------------------------------------------- typography.js, 6 - 12
\* The arrow function assigned to DeYoung.overrideThemeStyles, by the table
\* it returns.
overrideThemeStyles == [s \in {ImageLink} |-> [boxShadow |-> "none"]]

\* Mutant: the patch is written to the theme's own overrideStyles slot, which
\* throws the theme's style table away.
PatchOverrideStyles(theme) == [theme EXCEPT !.overrideStyles = overrideThemeStyles]

\* Mutant: the patch flips the hook instead of setting it, so a second
\* evaluation removes what the first one installed.
PatchThemeToggle(theme) ==
  IF theme.overrideThemeStyles = None
    THEN [theme EXCEPT !.overrideThemeStyles = Some(overrideThemeStyles)]
    ELSE [theme EXCEPT !.overrideThemeStyles = None]

\* DeYoung.overrideThemeStyles = ...: a plain property assignment on the
\* theme object; every other property keeps its value.
PatchTheme(theme) == [theme EXCEPT !.overrideThemeStyles = Some(overrideThemeStyles)]

ApplyOverride ==
  /\ pc = "patch"
  /\ DeYoung' = PatchTheme(DeYoung)
  /\ pc' = "construct"
  /\ UNCHANGED <<env, baseTheme, typography, prevTypography, exports, evals,
                 injectCalls, evalInjects, injectOutcome, styleTarget, lastResult>>

\* ---------------------------------------------------- typography.js, 14
\* new Typography(theme): an engine built from the theme object as it is at
\* the call; instance tells the engines of different evaluations apart.
NewTypography(theme, n) == [instance |-> n, options |-> theme]

Construct ==
  /\ pc = "construct"
  /\ typography' = Some(NewTypography(DeYoung, evals))
  /\ pc' = "branch"
  /\ UNCHANGED <<env, DeYoung, baseTheme, prevTypography, exports, evals,
                 injectCalls, evalInjects, injectOutcome, styleTarget, lastResult>>

\* ------------------------------------------------ typography.js, 16 - 19
\* Mutant: the comparison is inverted (=== instead of !==).
ShouldInjectInverted(flag) == flag = "production"

\* process.env.NODE_ENV !== `production`
ShouldInject(flag) == flag # "production"

\* Mutant: the injection is issued twice.
InjectStylesTwice(outcome) ==
  /\ injectCalls' = injectCalls + 2
  /\ evalInjects' = evalInjects + 2
  /\ injectOutcome' = outcome
  /\ IF outcome = "ok"
       THEN /\ styleTarget' = Append(styleTarget, typography[1].instance)
            /\ pc' = "export"
       ELSE /\ styleTarget' = styleTarget
            /\ pc' = "failed"

\* Mutant: the call is wrapped in try/catch, so a throw is swallowed and the
\* module goes on to its export statements.
InjectStylesCaught(outcome) ==
  /\ injectCalls' = injectCalls + 1
  /\ evalInjects' = evalInjects + 1
  /\ injectOutcome' = outcome
  /\ styleTarget' = IF outcome = "ok"
                      THEN Append(styleTarget, typography[1].instance)
                      ELSE styleTarget
  /\ pc' = "export"

\* typography.injectStyles(): the call is counted; it either returns (the
\* engine's CSS is in the style target) or throws (the style target is not
\* available).  There is no try/catch around it, so a throw ends the
\* evaluation of the module before the export statements.
InjectStyles(outcome) ==
  /\ injectCalls' = injectCalls + 1
  /\ evalInjects' = evalInjects + 1
  /\ injectOutcome' = outcome
  /\ IF outcome = "ok"
       THEN /\ styleTarget' = Append(styleTarget, typography[1].instance)
            /\ pc' = "export"
       ELSE /\ styleTarget' = styleTarget
            /\ pc' = "failed"

SkipInject ==
  /\ pc' = "export"
  /\ UNCHANGED <<injectCalls, evalInjects, injectOutcome, styleTarget>>

HotReloadBranch ==
  /\ pc = "branch"
  /\ IF ShouldInject(env)
       THEN \E outcome \in {"ok", "throws"} : InjectStyles(outcome)
       ELSE SkipInject
  /\ UNCHANGED <<env, DeYoung, baseTheme, typography, prevTypography, exports,
                 evals, lastResult>>

\* ------------------------------------------------ typography.js, 21 - 23
\* engine.rhythm / engine.scale: the method, as a closure over its engine.
Method(engine, name) == [owner |-> engine, name |-> name]

\* Mutant: scale is bound to the engine's rhythm (a copy-paste slip).
ModuleExportsSwapped(engine) ==
  [rhythm |-> Method(engine, "rhythm"),
   scale |-> Method(engine, "rhythm"),
   default |-> engine]

\* The three bindings the module exports.
ModuleExports(engine) ==
  [rhythm |-> Method(engine, "rhythm"),
   scale |-> Method(engine, "scale"),
   default |-> engine]

Export ==
  /\ pc = "export"
  /\ exports' = Some(ModuleExports(typography[1]))
  /\ pc' = "done"
  /\ UNCHANGED <<env, DeYoung, baseTheme, typography, prevTypography, evals,
                 injectCalls, evalInjects, injectOutcome, styleTarget, lastResult>>

\* ------------------------------------------------------------- consumers
\* Calling a method: the result is determined by the method, the options of
\* the engine it closes over, and the argument.
Call(f, arg) == [fn |-> f.name, options |-> f.owner.options, arg |-> arg]

\* Mutant: rendering writes to the shared engine (drops the theme's style
\* table from its options) while reading the margin.
RenderMutating ==
  /\ pc = "done"
  /\ exports # None
  /\ lastResult' = Some(Call(exports[1].rhythm, NotFoundMultiplier))
  /\ typography' = Some([typography[1] EXCEPT !.options.overrideStyles = EmptyTable])
  /\ UNCHANGED <<env, DeYoung, baseTheme, prevTypography, exports,
                 pc, evals, injectCalls, evalInjects, injectOutcome, styleTarget>>

\* 404.js, 8 - 28: NotFoundPage.render() reads rhythm(0.25) for a margin and
\* assigns nothing.
Render ==
  /\ pc = "done"
  /\ exports # None
  /\ lastResult' = Some(Call(exports[1].rhythm, NotFoundMultiplier))
  /\ UNCHANGED <<env, DeYoung, baseTheme, typography, prevTypography, exports,
                 pc, evals, injectCalls, evalInjects, injectOutcome, styleTarget>>

\* Any other presentation component calling the exported rhythm.
CallRhythm ==
  /\ pc = "done"
  /\ exports # None
  /\ \E m \in Multipliers : lastResult' = Some(Call(exports[1].rhythm, m))
  /\ UNCHANGED <<env, DeYoung, baseTheme, typography, prevTypography, exports,
                 pc, evals, injectCalls, evalInjects, injectOutcome, styleTarget>>

\* Any other presentation component calling the exported scale.
CallScale ==
  /\ pc = "done"
  /\ exports # None
  /\ \E s \in Steps : lastResult' = Some(Call(exports[1].scale, s))
  /\ UNCHANGED <<env, DeYoung, baseTheme, typography, prevTypography, exports,
                 pc, evals, injectCalls, evalInjects, injectOutcome, styleTarget>>

\* ------------------------------------------------------------ hot reload
\* The module is evaluated again in the same process ("Hot reload typography
\* in development"): fresh module scope, the same imported DeYoung object and
\* the same environment flag.
HotReload ==
  /\ pc \in {"done", "failed"}
  /\ evals < MaxEvals
  /\ evals' = evals + 1
  /\ prevTypography' = typography
  /\ typography' = None
  /\ exports' = None
  /\ evalInjects' = 0
  /\ injectOutcome' = "none"
  /\ pc' = "patch"
  /\ UNCHANGED <<env, DeYoung, baseTheme, injectCalls, styleTarget, lastResult>>

\* ------------------------------------------------------------------ spec
\* The process starts with the theme as its package exports it: its own
\* style table, and no overrideThemeStyles hook yet.
Init ==
  /\ env \in EnvFlags
  /\ \E t \in BaseTables :
       DeYoung = [overrideStyles |-> t, overrideThemeStyles |-> None]
  /\ baseTheme = DeYoung
  /\ typography = None
  /\ prevTypography = None
  /\ exports = None
  /\ pc = "patch"
  /\ evals = 1
  /\ injectCalls = 0
  /\ evalInjects = 0
  /\ injectOutcome = "none"
  /\ styleTarget = <<>>
  /\ lastResult = None

Next ==
  \/ ApplyOverride
  \/ Construct
  \/ HotReloadBranch
  \/ Export
  \/ Render
  \/ CallRhythm
  \/ CallScale
  \/ HotReload

Spec == Init /\ [][Next]_vars
\* ---------------------------------------------------------------- claims
\* The theme carries the patch: its overrideThemeStyles hook returns a table
\* with 'a.gatsby-resp-image-link' -> {boxShadow: 'none'}.
HasPatchEntry(theme) ==
  /\ theme.overrideThemeStyles # None
  /\ ImageLink \in DOMAIN theme.overrideThemeStyles[1]
  /\ theme.overrideThemeStyles[1][ImageLink] = [boxShadow |-> "none"]

\* C1: in production mode no evaluation of the module ever calls
\* injectStyles: the call count stays zero and the style target stays empty.
C1_NoInjectionInProduction ==
  env = "production" => (injectCalls = 0 /\ evalInjects = 0 /\ styleTarget = <<>>)

\* C1 witness: a production process that has finished its second evaluation.
C1_Witness ==
  env = "production" /\ evals = 2 /\ pc = "done" /\ exports # None

\* C2: for every flag other than "production" (the unset flag included) each
\* evaluation calls injectStyles exactly once, and only with the engine of
\* that evaluation already constructed.
C2_InjectsOnceAfterConstruct ==
  /\ evalInjects <= 1
  /\ (env # "production" /\ pc \in {"export", "done", "failed"}) => evalInjects = 1
  /\ (env # "production" /\ pc \in {"patch", "construct", "branch"}) => evalInjects = 0
  /\ env # "production" => injectCalls = (evals - 1) + evalInjects
  /\ evalInjects > 0 => (typography # None /\ typography[1].instance = evals)

\* C2 witness: the flag is unset and the second evaluation has injected.
C2_Witness ==
  env = "undefined" /\ evals = 2 /\ pc = "done" /\ evalInjects = 1 /\ injectCalls = 2

\* C3: once the patch is applied the theme holds the image-link entry, and
\* the style table the theme brought is still there unchanged, both on the
\* theme object and in the options of the engine built from it.
C3_ScopedOverride ==
  /\ pc # "patch" =>
       /\ HasPatchEntry(DeYoung)
       /\ DeYoung.overrideStyles = baseTheme.overrideStyles
  /\ typography # None =>
       /\ HasPatchEntry(typography[1].options)
       /\ typography[1].options.overrideStyles = baseTheme.overrideStyles

\* C3 witness: a theme that brought entries for other selectors, after
\* initialization.
C3_Witness ==
  /\ pc = "done"
  /\ typography # None
  /\ DOMAIN baseTheme.overrideStyles = {"a", "h1"}
  /\ HasPatchEntry(DeYoung)

\* C5 as stated: a throwing injectStyles is non-fatal, the evaluation goes on
\* and ends with the exports bound.
C5_InjectionFailureNonFatal ==
  injectOutcome = "throws" => (pc \in {"export", "done"} /\ (pc = "done" => exports # None))

\* C5 amended: a throwing injectStyles aborts the evaluation with nothing
\* exported; an evaluation that is done has its exports bound and saw no
\* throw.
C5_InjectionFailureFatal ==
  /\ injectOutcome = "throws" => (pc = "failed" /\ exports = None)
  /\ pc = "failed" => (injectOutcome = "throws" /\ env # "production")
  /\ pc = "done" => (exports # None /\ injectOutcome # "throws")

\* C5 witness: a development-mode evaluation whose injection threw.
C5_Witness ==
  env = "development" /\ injectOutcome = "throws" /\ pc = "failed" /\ typography # None

\* C6: within an evaluation, once the engine is constructed no step (the
\* injection, the exports, a render, a call of rhythm or scale) changes the
\* theme object, the engine or bound exports.
C6_WriteOnce ==
  [][(typography # None /\ evals' = evals) =>
       /\ DeYoung' = DeYoung
       /\ typography' = typography
       /\ (exports # None => exports' = exports)]_vars

\* C6 witness: after construction the injection ran and a consumer called.
C6_Witness ==
  /\ pc = "done"
  /\ evalInjects = 1
  /\ lastResult # None
  /\ typography # None
  /\ typography[1].options = DeYoung

\* C7: the engine of a re-evaluation returns, for every argument, what the
\* engine of the evaluation before it returns.
C7_IdempotentOutputs ==
  (prevTypography # None /\ typography # None) =>
    /\ \A m \in Multipliers :
         Call(Method(typography[1], "rhythm"), m) = Call(Method(prevTypography[1], "rhythm"), m)
    /\ \A s \in Steps :
         Call(Method(typography[1], "scale"), s) = Call(Method(prevTypography[1], "scale"), s)

\* C7 witness: two engines of two evaluations exist side by side.
C7_Witness ==
  /\ prevTypography # None
  /\ typography # None
  /\ typography[1].instance = 2
  /\ prevTypography[1].instance = 1
  /\ pc = "done"

\* C8: the exported rhythm and scale are the methods of the default-exported
\* engine, which is the one engine of this evaluation, built from the
\* patched theme.
C8_ExportsBoundToEngine ==
  exports # None =>
    /\ typography # None
    /\ exports[1].default = typography[1]
    /\ exports[1].default.instance = evals
    /\ exports[1].rhythm.owner = exports[1].default
    /\ exports[1].scale.owner = exports[1].default
    /\ \A m \in Multipliers :
         Call(exports[1].rhythm, m) = Call(Method(exports[1].default, "rhythm"), m)
    /\ \A s \in Steps :
         Call(exports[1].scale, s) = Call(Method(exports[1].default, "scale"), s)
    /\ HasPatchEntry(exports[1].default.options)

\* C8 witness: the 404 page has rendered with the exported rhythm.
C8_Witness ==
  /\ exports # None
  /\ lastResult = Some(Call(Method(typography[1], "rhythm"), NotFoundMultiplier))
  /\ evals = 1
====
